---- MODULE Spec2Model ----
(***************************************************************************)
(* A model of screenshot_daemon.c: the startup of main, the capture loop,  *)
(* mkdir_p, random_hex and save_png.  Strings are sequences of one-        *)
(* character strings, so that snprintf truncation, atoi's scan and the     *)
(* walk of mkdir_p over the path are modelled character by character.     *)
(***************************************************************************)
EXTENDS Integers, Sequences, FiniteSets, TLC

(* ---------------------------------------------------------------------- *)
(* Program constants                                                      *)
DEFAULT_INTERVAL_MS == 1000

RANDOM_NAME_LEN == 8

\* char dirpath[512] in main and char tmp[512] in mkdir_p
DirBufSize == 512

\* char filepath[1024] in main
FileBufSize == 1024

\* the bit depth handed to png_set_IHDR
PngBitDepth == 8

(* ---------------------------------------------------------------------- *)
(* Bounds of the model                                                    *)

\* width and height of the root window, queried once at startup
ScreenW == 2

ScreenH == 2

\* length of the long HOME value (long enough to overflow dirpath)
LongHomeLen == 500

\* cap on the count of row buffers that were allocated and never freed
MaxLeaked == 1

(* ---------------------------------------------------------------------- *)
(* Strings                                                                *)
hex == <<"0","1","2","3","4","5","6","7","8","9","a","b","c","d","e","f">>

Digits == {"0","1","2","3","4","5","6","7","8","9"}

IsDigit(c) == c \in Digits

IsSpace(c) == c \in {" ", "\t", "\n"}

DigitVal(c) == (CHOOSE i \in 1..10 : hex[i] = c) - 1

Min(a, b) == IF a < b THEN a ELSE b

\* snprintf(buf, size, ...): at most size-1 characters are stored
snprintf(size, s) == SubSeq(s, 1, Min(Len(s), size - 1))

\* decimal digits of a non-negative int, no padding
RECURSIVE Dec(_)
Dec(n) == IF n < 10 THEN <<hex[n + 1]>> ELSE Dec(n \div 10) \o <<hex[(n % 10) + 1]>>

RECURSIVE Zeros(_)
Zeros(k) == IF k <= 0 THEN <<>> ELSE <<"0">> \o Zeros(k - 1)

\* printf's %0<w>d for a non-negative argument
PadDec(n, w) == Zeros(w - Len(Dec(n))) \o Dec(n)

SlashScreenshots == <<"/","S","c","r","e","e","n","s","h","o","t","s">>

DotPng == <<".","p","n","g">>

(* ---------------------------------------------------------------------- *)
(* atoi: skip white space, take an optional sign, accumulate the leading  *)
(* run of decimal digits; anything after that run is ignored.             *)
RECURSIVE SkipSpace(_, _)
SkipSpace(s, i) == IF i <= Len(s) /\ IsSpace(s[i]) THEN SkipSpace(s, i + 1) ELSE i

RECURSIVE AccDigits(_, _, _)
AccDigits(s, i, acc) ==
    IF i > Len(s) \/ ~IsDigit(s[i]) THEN acc
    ELSE AccDigits(s, i + 1, acc * 10 + DigitVal(s[i]))

atoi(s) ==
    LET i   == SkipSpace(s, 1)
        sgn == i <= Len(s) /\ s[i] \in {"-", "+"}
        neg == i <= Len(s) /\ s[i] = "-"
        j   == IF sgn THEN i + 1 ELSE i
    IN  IF neg THEN 0 - AccDigits(s, j, 0) ELSE AccDigits(s, j, 0)

\* lines 132-136 of main: args is argv without the program name
ParseIntervalOffByZero(args) ==
    IF Len(args) > 0 /\ atoi(args[1]) >= 0 THEN atoi(args[1]) ELSE DEFAULT_INTERVAL_MS

ParseInterval(args) ==
    IF Len(args) > 0 /\ atoi(args[1]) > 0 THEN atoi(args[1]) ELSE DEFAULT_INTERVAL_MS

(* ---------------------------------------------------------------------- *)
(* interval_ms * 1000 in 32-bit int arithmetic.  Values of 32 bits and    *)
(* more are kept as 16-bit limbs, most significant first.                 *)
Limb == 2 ^ 16

\* the exact product n * 1000, as three limbs <<bits 32.., bits 16..31, bits 0..15>>
Times1000(n) ==
    LET lo == n % Limb
        hi == n \div Limb
        a  == lo * 1000
        t  == hi * 1000 + (a \div Limb)
    IN  <<t \div Limb, t % Limb, a % Limb>>

\* the product fits a 32-bit signed int
FitsInt(p) == p[1] = 0 /\ p[2] < 2 ^ 15

\* the low 32 bits, as the useconds_t argument of usleep sees them
Wrap32(p) == <<p[2], p[3]>>

\* Signed overflow is undefined: the value reaching usleep is then a choice
\* between the two's-complement wrap (what the multiply instruction leaves,
\* converted to the 32-bit useconds_t) and another value altogether, for
\* which the largest useconds_t stands.
UsleepArgs(n) ==
    LET p == Times1000(n)
    IN  IF FitsInt(p) THEN {Wrap32(p)}
        ELSE {Wrap32(p), <<Limb - 1, Limb - 1>>}

\* a 32-bit value <<hi, lo>> is at least the exact product p
AtLeast(u, p) == p[1] = 0 /\ (u[1] > p[2] \/ (u[1] = p[2] /\ u[2] >= p[3]))

(* ---------------------------------------------------------------------- *)
(* The file system, as far as mkdir sees it: a set of directory paths.    *)
SlashesAt(p) == {i \in 1..Len(p) : p[i] = "/"}

LastSlash(p) == IF SlashesAt(p) = {} THEN 0
                ELSE CHOOSE i \in SlashesAt(p) : \A j \in SlashesAt(p) : j <= i

\* the parent of a path exists: the root and the working directory always do
ParentExists(D, p) == LastSlash(p) <= 1 \/ SubSeq(p, 1, LastSlash(p) - 1) \in D

\* mkdir(2): -1 on an empty path, on an existing path (EEXIST), when the
\* parent is missing, and when the environment refuses (ok = FALSE)
mkdir(D, p, ok) ==
    IF p = <<>> \/ p \in D THEN [ret |-> 0 - 1, dirs |-> D]
    ELSE IF ok /\ ParentExists(D, p) THEN [ret |-> 0, dirs |-> D \cup {p}]
    ELSE [ret |-> 0 - 1, dirs |-> D]

\* the loop of mkdir_p: for every '/' after the first character, in order,
\* mkdir the prefix before it, ignoring the result
RECURSIVE MkdirWalk(_, _, _, _)
MkdirWalk(tmp, todo, D, ok) ==
    IF todo = {} THEN D
    ELSE LET p == CHOOSE i \in todo : \A j \in todo : i <= j
         IN  MkdirWalk(tmp, todo \ {p}, mkdir(D, SubSeq(tmp, 1, p - 1), ok).dirs, ok)

\* mkdir_p: the result is that of the last mkdir alone
mkdir_p(D, path, ok) ==
    LET t0  == snprintf(DirBufSize, path)
        len == Len(t0)
        tmp == IF len > 0 /\ t0[len] = "/" THEN SubSeq(t0, 1, len - 1) ELSE t0
        D1  == MkdirWalk(tmp, SlashesAt(tmp) \ {1}, D, ok)
        m   == mkdir(D1, tmp, ok)
    IN  IF len = 0 THEN [ret |-> 0 - 1, dirs |-> D, target |-> <<>>]
        ELSE [ret |-> m.ret, dirs |-> m.dirs, target |-> tmp]

\* every directory mkdir_p would make for path is already there
AllExist(D, path) ==
    LET t0  == snprintf(DirBufSize, path)
        tmp == IF Len(t0) > 0 /\ t0[Len(t0)] = "/" THEN SubSeq(t0, 1, Len(t0) - 1) ELSE t0
    IN  /\ tmp \in D
        /\ \A p \in SlashesAt(tmp) \ {1} : SubSeq(tmp, 1, p - 1) \in D

(* ---------------------------------------------------------------------- *)
(* random_hex: out[i] = hex[rand() % 16], draws being the rand() results  *)
random_hex(draws, len) == [i \in 1..len |-> hex[(draws[i] % 16) + 1]]

(* ---------------------------------------------------------------------- *)
(* The two snprintf calls of the loop                                     *)
DirPath(base, tm) ==
    snprintf(DirBufSize,
             base \o SlashScreenshots
                  \o <<"/">> \o PadDec(tm.tm_year + 1900, 4)
                  \o <<"/">> \o PadDec(tm.tm_mon + 1, 2)
                  \o <<"/">> \o PadDec(tm.tm_mday, 2)
                  \o <<"/">> \o PadDec(tm.tm_hour, 2))

FilePath(dir, nm) == snprintf(FileBufSize, dir \o <<"/">> \o nm \o DotPng)

(* ---------------------------------------------------------------------- *)
(* Pixel normalization, lines 112-118 of save_png                         *)
RECURSIVE BitAnd(_, _)
BitAnd(a, b) ==
    IF a = 0 \/ b = 0 THEN 0
    ELSE (a % 2) * (b % 2) + 2 * BitAnd(a \div 2, b \div 2)

\* the conversion of an unsigned long to png_byte
Byte(v) == v % 256

XGetPixel(image, x, y) == image.data[y + 1][x + 1]

\* shifts taken from the masks themselves
RECURSIVE MaskOffset(_)
MaskOffset(m) == IF m = 0 \/ m % 2 = 1 THEN 0 ELSE 1 + MaskOffset(m \div 2)

\* a normalizer that forgets the shift of the red channel
NormalizePixelNoShift(pixel, image) ==
    << Byte(BitAnd(pixel, image.red_mask)),
       Byte(BitAnd(pixel, image.green_mask) \div (2 ^ 8)),
       Byte(BitAnd(pixel, image.blue_mask)) >>

\* row[3x], row[3x+1], row[3x+2]: the shifts are the fixed 16, 8 and 0
NormalizePixel(pixel, image) ==
    << Byte(BitAnd(pixel, image.red_mask) \div (2 ^ 16)),
       Byte(BitAnd(pixel, image.green_mask) \div (2 ^ 8)),
       Byte(BitAnd(pixel, image.blue_mask)) >>

RECURSIVE NormalizeRowFrom(_, _, _)
NormalizeRowFrom(image, y, x) ==
    IF x >= image.width THEN <<>>
    ELSE NormalizePixel(XGetPixel(image, x, y), image) \o NormalizeRowFrom(image, y, x + 1)

NormalizeRow(image, y) == NormalizeRowFrom(image, y, 0)

(* ---------------------------------------------------------------------- *)
(* Inputs                                                                 *)
Args == { <<"2","5","0">>, <<"0">>, <<"-","5">>, <<"a","b","c">>, <<"1","2","a","b">>,
          <<" ","4","2">>, <<"+","7">>, <<>>,
          <<"2","1","4","7","4","8","3">>, <<"4","2","9","4","9","6","8">> }

ShortHome == <<"/","h">>

LongHome == [i \in 1..LongHomeLen |-> IF i = 1 THEN "/" ELSE "a"]

\* argv without the program name, and HOME as <<>> (unset) or <<value>>
Scenarios ==
    {[argv |-> <<a>>, env |-> <<ShortHome>>] : a \in Args}
    \cup {[argv |-> <<>>, env |-> e] : e \in {<<>>, <<ShortHome>>, <<LongHome>>}}

getenv_HOME(env) == IF Len(env) = 0 THEN <<".">> ELSE env[1]

\* results of localtime_r
Times == { [tm_year |-> 124, tm_mon |-> 0,  tm_mday |-> 5,  tm_hour |-> 9],
           [tm_year |-> 125, tm_mon |-> 11, tm_mday |-> 31, tm_hour |-> 23] }

\* eight results of rand()
RandDraws == { <<0, 1, 2, 3, 4, 5, 6, 7>>,
               <<10, 27, 255, 2147483647, 16, 9, 15, 31>> }

\* packed pixel words: 0x112233, 0x7F112233, 0xFFFFFF, 0x01ABCDEF
PixelWords == <<1122867, 2131829299, 16777215, 28036591>>

Frames ==
    { [y \in 1..ScreenH |-> [x \in 1..ScreenW |-> PixelWords[1]]],
      [y \in 1..ScreenH |-> [x \in 1..ScreenW |->
            PixelWords[((x + ScreenW * (y - 1) - 1) % Len(PixelWords)) + 1]]] }

\* channel masks of the visual: RGB 24-bit, BGR 24-bit, RGB 5-6-5
MaskSets == { [red |-> 16711680, green |-> 65280, blue |-> 255],
              [red |-> 255, green |-> 65280, blue |-> 16711680],
              [red |-> 63488, green |-> 2016, blue |-> 31] }

XImage(w, h, m, d) ==
    [width |-> w, height |-> h, red_mask |-> m.red, green_mask |-> m.green,
     blue_mask |-> m.blue, data |-> d]

(* ---------------------------------------------------------------------- *)
(* State                                                                  *)
VARIABLES
    pc,            \* where main is
    argv,          \* the arguments after the program name
    homeEnv,       \* HOME: <<>> when unset, else <<value>>
    interval_ms,
    home,
    dpy,           \* the display connection is open
    exitStatus,    \* <<>> while running, else <<status>>
    width, height,
    dirs,          \* the directories that exist
    files,         \* the paths fopen has created
    now,           \* tm_now of this iteration, <<>> before it is read
    dirpath, name, filepath,
    mkdirRet,      \* <<>> or <<result of mkdir_p>>
    mkdirTarget,   \* the path of mkdir_p's last mkdir
    existedBefore, \* that path and all its prefixes existed before the call
    treeUnchanged, \* the call left dirs as it was
    captures,      \* XGetImage calls of this iteration
    img,           \* <<>> (NULL or destroyed) or <<the XImage>>
    fp,            \* the FILE is open
    opens,         \* fopen calls of this iteration
    png_ptr, info_ptr,
    rowBufs,       \* row buffers allocated and not freed
    y,
    out,           \* what this call of save_png has written: header, rows (each with
                   \* the scanline it came from), end mark
    steps,         \* the steps of this call of save_png that were carried out, in order
    failed,        \* the steps of this iteration that failed
    ret,           \* <<>> or <<result of save_png>>
    stdout, stderr,\* the lines this iteration printed
    sleptUsec      \* <<>> or the argument of the last usleep, as <<hi, lo>> limbs

locals == <<now, dirpath, name, filepath, mkdirRet, mkdirTarget, existedBefore,
            treeUnchanged, captures, img, fp, opens, png_ptr, info_ptr, y, out,
            steps, failed, ret, stdout, stderr>>

config == <<argv, homeEnv, interval_ms, home, dpy, exitStatus, width, height>>

vars == <<pc, config, dirs, files, locals, rowBufs, sleptUsec>>

NoOutput == [header |-> <<>>, rows |-> <<>>, ended |-> FALSE]

\* the locals of the loop body before the body has run
FreshLocals ==
    /\ now = <<>> /\ dirpath = <<>> /\ name = <<>> /\ filepath = <<>>
    /\ mkdirRet = <<>> /\ mkdirTarget = <<>>
    /\ existedBefore = FALSE /\ treeUnchanged = TRUE
    /\ captures = 0 /\ img = <<>> /\ fp = FALSE /\ opens = 0
    /\ png_ptr = FALSE /\ info_ptr = FALSE /\ y = 0
    /\ out = NoOutput /\ steps = <<>> /\ failed = {} /\ ret = <<>>
    /\ stdout = <<>> /\ stderr = <<>>

\* the end of the loop body: its locals are gone
ResetLocals ==
    /\ now' = <<>> /\ dirpath' = <<>> /\ name' = <<>> /\ filepath' = <<>>
    /\ mkdirRet' = <<>> /\ mkdirTarget' = <<>>
    /\ existedBefore' = FALSE /\ treeUnchanged' = TRUE
    /\ captures' = 0 /\ img' = <<>> /\ fp' = FALSE /\ opens' = 0
    /\ png_ptr' = FALSE /\ info_ptr' = FALSE /\ y' = 0
    /\ out' = NoOutput /\ steps' = <<>> /\ failed' = {} /\ ret' = <<>>
    /\ stdout' = <<>> /\ stderr' = <<>>

Init ==
    /\ pc = "start"
    /\ \E sc \in Scenarios :
          /\ argv = sc.argv
          /\ homeEnv = sc.env
          /\ dirs = {getenv_HOME(sc.env)}
    /\ interval_ms = DEFAULT_INTERVAL_MS
    /\ home = <<>>
    /\ dpy = FALSE
    /\ exitStatus = <<>>
    /\ width = 0 /\ height = 0
    /\ files = {}
    /\ rowBufs = 0
    /\ sleptUsec = <<>>
    /\ FreshLocals

(* ---------------------------------------------------------------------- *)
(* main, lines 131-147: XOpenDisplay returns NULL                         *)
StartupFail ==
    /\ pc = "start"
    /\ interval_ms' = ParseInterval(argv)
    /\ home' = getenv_HOME(homeEnv)
    /\ stderr' = Append(stderr, "Cannot open X display")
    /\ exitStatus' = <<1>>
    /\ pc' = "exited"
    /\ UNCHANGED <<argv, homeEnv, dpy, width, height, dirs, files, rowBufs, sleptUsec,
                   now, dirpath, name, filepath, mkdirRet, mkdirTarget, existedBefore,
                   treeUnchanged, captures, img, fp, opens, png_ptr, info_ptr, y, out,
                   steps, failed, ret, stdout>>

(* main, lines 131-155: the display opens, the root window size is read   *)
StartupOk ==
    /\ pc = "start"
    /\ interval_ms' = ParseInterval(argv)
    /\ home' = getenv_HOME(homeEnv)
    /\ dpy' = TRUE
    /\ width' = ScreenW
    /\ height' = ScreenH
    /\ pc' = "loop"
    /\ UNCHANGED <<argv, homeEnv, exitStatus, dirs, files, rowBufs, sleptUsec, locals>>

(* main, lines 158-172: directory path, mkdir_p, random name, file path   *)
BuildPath ==
    /\ pc = "loop"
    /\ \E tm \in Times, draws \in RandDraws, ok \in BOOLEAN :
          LET dp == DirPath(home, tm)
              m  == mkdir_p(dirs, dp, ok)
              nm == random_hex(draws, RANDOM_NAME_LEN)
          IN  /\ now' = <<tm>>
              /\ dirpath' = dp
              /\ dirs' = m.dirs
              /\ mkdirRet' = <<m.ret>>
              /\ mkdirTarget' = m.target
              /\ existedBefore' = AllExist(dirs, dp)
              /\ treeUnchanged' = (m.dirs = dirs)
              /\ name' = nm
              /\ filepath' = FilePath(dp, nm)
    /\ pc' = "capture"
    /\ UNCHANGED <<config, files, rowBufs, sleptUsec, captures, img, fp, opens, png_ptr,
                   info_ptr, y, out, steps, failed, ret, stdout, stderr>>

\* a capture failure that gives up the process
CaptureFailExits ==
    /\ pc = "capture"
    /\ captures' = captures + 1
    /\ failed' = failed \cup {"capture"}
    /\ stderr' = Append(stderr, "Screenshot failed")
    /\ exitStatus' = <<1>>
    /\ pc' = "exited"
    /\ UNCHANGED <<argv, homeEnv, interval_ms, home, dpy, width, height, dirs, files,
                   rowBufs, sleptUsec, now, dirpath, name, filepath, mkdirRet,
                   mkdirTarget, existedBefore, treeUnchanged, img, fp, opens, png_ptr,
                   info_ptr, y, out, steps, ret, stdout>>

\* a capture failure that asks XGetImage once more before giving up
CaptureFailRetries ==
    /\ pc = "capture"
    /\ captures' = captures + 2
    /\ failed' = failed \cup {"capture"}
    /\ stderr' = Append(stderr, "Screenshot failed")
    /\ pc' = "sleep"
    /\ UNCHANGED <<config, dirs, files,
                   rowBufs, sleptUsec, now, dirpath, name, filepath, mkdirRet,
                   mkdirTarget, existedBefore, treeUnchanged, img, fp, opens, png_ptr,
                   info_ptr, y, out, steps, ret, stdout>>

(* main, lines 175-177: XGetImage returns NULL                            *)
CaptureFail ==
    /\ pc = "capture"
    /\ captures' = captures + 1
    /\ failed' = failed \cup {"capture"}
    /\ stderr' = Append(stderr, "Screenshot failed")
    /\ pc' = "sleep"
    /\ UNCHANGED <<config, dirs, files,
                   rowBufs, sleptUsec, now, dirpath, name, filepath, mkdirRet,
                   mkdirTarget, existedBefore, treeUnchanged, img, fp, opens, png_ptr,
                   info_ptr, y, out, steps, ret, stdout>>

(* main, lines 175-179: XGetImage returns an image, save_png is entered   *)
CaptureOk ==
    /\ pc = "capture"
    /\ \E d \in Frames, m \in MaskSets : img' = <<XImage(width, height, m, d)>>
    /\ captures' = captures + 1
    /\ pc' = "fopen"
    /\ UNCHANGED <<config, dirs, files, rowBufs, sleptUsec, now, dirpath, name, filepath,
                   mkdirRet, mkdirTarget, existedBefore, treeUnchanged, fp, opens,
                   png_ptr, info_ptr, y, out, steps, failed, ret, stdout, stderr>>

(* ---------------------------------------------------------------------- *)
(* save_png                                                               *)
Header(image) ==
    [width |-> image.width, height |-> image.height, bit_depth |-> PngBitDepth,
     color_type |-> "RGB", interlace |-> "NONE"]

\* lines 71-75: fopen fails
FopenFail ==
    /\ pc = "fopen"
    /\ opens' = opens + 1
    /\ stderr' = Append(stderr, "fopen")
    /\ failed' = failed \cup {"open"}
    /\ ret' = <<0 - 1>>
    /\ pc' = "saved"
    /\ UNCHANGED <<config, dirs, files, rowBufs, sleptUsec, now, dirpath, name, filepath,
                   mkdirRet, mkdirTarget, existedBefore, treeUnchanged, captures, img,
                   fp, png_ptr, info_ptr, y, out, steps, stdout>>

\* line 71: fopen(filepath, "wb") creates or truncates the file; the
\* directory of the path has to exist
FopenOk ==
    /\ pc = "fopen"
    /\ ParentExists(dirs, filepath)
    /\ opens' = opens + 1
    /\ fp' = TRUE
    /\ files' = files \cup {filepath}
    /\ steps' = Append(steps, "open")
    /\ pc' = "create_write"
    /\ UNCHANGED <<config, dirs, rowBufs, sleptUsec, now, dirpath, name, filepath,
                   mkdirRet, mkdirTarget, existedBefore, treeUnchanged, captures, img,
                   png_ptr, info_ptr, y, out, failed, ret, stdout, stderr>>

\* lines 77-81: png_create_write_struct fails
CreateWriteFail ==
    /\ pc = "create_write"
    /\ fp' = FALSE
    /\ steps' = Append(steps, "close")
    /\ failed' = failed \cup {"create_write"}
    /\ ret' = <<0 - 1>>
    /\ pc' = "saved"
    /\ UNCHANGED <<config, dirs, files, rowBufs, sleptUsec, now, dirpath, name, filepath,
                   mkdirRet, mkdirTarget, existedBefore, treeUnchanged, captures, img,
                   opens, png_ptr, info_ptr, y, out, stdout, stderr>>

\* line 77
CreateWriteOk ==
    /\ pc = "create_write"
    /\ png_ptr' = TRUE
    /\ steps' = Append(steps, "create_write")
    /\ pc' = "create_info"
    /\ UNCHANGED <<config, dirs, files, rowBufs, sleptUsec, now, dirpath, name, filepath,
                   mkdirRet, mkdirTarget, existedBefore, treeUnchanged, captures, img,
                   fp, opens, info_ptr, y, out, failed, ret, stdout, stderr>>

\* lines 83-88: png_create_info_struct fails
CreateInfoFail ==
    /\ pc = "create_info"
    /\ png_ptr' = FALSE
    /\ fp' = FALSE
    /\ steps' = Append(steps, "close")
    /\ failed' = failed \cup {"create_info"}
    /\ ret' = <<0 - 1>>
    /\ pc' = "saved"
    /\ UNCHANGED <<config, dirs, files, rowBufs, sleptUsec, now, dirpath, name, filepath,
                   mkdirRet, mkdirTarget, existedBefore, treeUnchanged, captures, img,
                   opens, info_ptr, y, out, stdout, stderr>>

\* lines 83 and 90: the info struct exists, the jump buffer is set
CreateInfoOk ==
    /\ pc = "create_info"
    /\ info_ptr' = TRUE
    /\ steps' = Append(steps, "create_info")
    /\ pc' = "write_info"
    /\ UNCHANGED <<config, dirs, files, rowBufs, sleptUsec, now, dirpath, name, filepath,
                   mkdirRet, mkdirTarget, existedBefore, treeUnchanged, captures, img,
                   fp, opens, png_ptr, y, out, failed, ret, stdout, stderr>>

\* lines 90-94: libpng reports an error in `step` by longjmp; the handler
\* destroys the codec state and closes the file, and frees nothing else
LibpngError(step) ==
    /\ png_ptr' = FALSE
    /\ info_ptr' = FALSE
    /\ fp' = FALSE
    /\ steps' = Append(steps, "close")
    /\ failed' = failed \cup {step}
    /\ ret' = <<0 - 1>>
    /\ pc' = "saved"

\* lines 96-102, then 90-94: png_set_IHDR or png_write_info fails
WriteInfoFail ==
    /\ pc = "write_info"
    /\ LibpngError("header")
    /\ UNCHANGED <<config, dirs, files, rowBufs, sleptUsec, now, dirpath, name, filepath,
                   mkdirRet, mkdirTarget, existedBefore, treeUnchanged, captures, img,
                   opens, y, out, stdout, stderr>>

\* lines 96-102: the header is written
WriteInfoOk ==
    /\ pc = "write_info"
    /\ out' = [out EXCEPT !.header = <<Header(img[1])>>]
    /\ steps' = Append(steps, "header")
    /\ pc' = "malloc_row"
    /\ UNCHANGED <<config, dirs, files, rowBufs, sleptUsec, now, dirpath, name, filepath,
                   mkdirRet, mkdirTarget, existedBefore, treeUnchanged, captures, img,
                   fp, opens, png_ptr, info_ptr, y, failed, ret, stdout, stderr>>

\* lines 104-109: malloc returns NULL
MallocRowFail ==
    /\ pc = "malloc_row"
    /\ png_ptr' = FALSE
    /\ info_ptr' = FALSE
    /\ fp' = FALSE
    /\ steps' = Append(steps, "close")
    /\ failed' = failed \cup {"malloc_row"}
    /\ ret' = <<0 - 1>>
    /\ pc' = "saved"
    /\ UNCHANGED <<config, dirs, files, rowBufs, sleptUsec, now, dirpath, name, filepath,
                   mkdirRet, mkdirTarget, existedBefore, treeUnchanged, captures, img,
                   opens, y, out, stdout, stderr>>

\* line 104, and y = 0 of line 112
MallocRowOk ==
    /\ pc = "malloc_row"
    /\ rowBufs' = rowBufs + 1
    /\ y' = 0
    /\ pc' = "rows"
    /\ UNCHANGED <<config, dirs, files, sleptUsec, now, dirpath, name, filepath,
                   mkdirRet, mkdirTarget, existedBefore, treeUnchanged, captures, img,
                   fp, opens, png_ptr, info_ptr, out, steps, failed, ret, stdout, stderr>>

\* lines 112-119, then 90-94: png_write_row fails; row is not freed
WriteRowFail ==
    /\ pc = "rows"
    /\ y < img[1].height
    /\ rowBufs <= MaxLeaked
    /\ LibpngError("row")
    /\ UNCHANGED <<config, dirs, files, rowBufs, sleptUsec, now, dirpath, name, filepath,
                   mkdirRet, mkdirTarget, existedBefore, treeUnchanged, captures, img,
                   opens, y, out, stdout, stderr>>

\* lines 112-120: scanline y is normalized and written
WriteRowOk ==
    /\ pc = "rows"
    /\ y < img[1].height
    /\ out' = [out EXCEPT !.rows = Append(@, [y |-> y, bytes |-> NormalizeRow(img[1], y)])]
    /\ steps' = Append(steps, "row")
    /\ y' = y + 1
    /\ UNCHANGED <<pc, config, dirs, files, rowBufs, sleptUsec, now, dirpath, name,
                   filepath, mkdirRet, mkdirTarget, existedBefore, treeUnchanged,
                   captures, img, fp, opens, png_ptr, info_ptr, failed, ret, stdout,
                   stderr>>

\* lines 122-123, then 90-94: the row is freed, png_write_end fails
WriteEndFail ==
    /\ pc = "rows"
    /\ y >= img[1].height
    /\ rowBufs' = rowBufs - 1
    /\ LibpngError("end")
    /\ UNCHANGED <<config, dirs, files, sleptUsec, now, dirpath, name, filepath,
                   mkdirRet, mkdirTarget, existedBefore, treeUnchanged, captures, img,
                   opens, y, out, stdout, stderr>>

\* lines 122-126: free, png_write_end, destroy, fclose, return 0; the
\* result of fclose is not looked at
Finish ==
    /\ pc = "rows"
    /\ y >= img[1].height
    /\ rowBufs' = rowBufs - 1
    /\ out' = [out EXCEPT !.ended = TRUE]
    /\ png_ptr' = FALSE
    /\ info_ptr' = FALSE
    /\ fp' = FALSE
    /\ steps' = steps \o <<"end", "close">>
    /\ \E closeOk \in BOOLEAN :
          failed' = IF closeOk THEN failed ELSE failed \cup {"close"}
    /\ ret' = <<0>>
    /\ pc' = "saved"
    /\ UNCHANGED <<config, dirs, files, sleptUsec, now, dirpath, name, filepath,
                   mkdirRet, mkdirTarget, existedBefore, treeUnchanged, captures, img,
                   opens, y, stdout, stderr>>

(* ---------------------------------------------------------------------- *)
(* main, lines 179-181: report a saved file, destroy the image            *)
Report ==
    /\ pc = "saved"
    /\ stdout' = IF ret = <<0>> THEN Append(stdout, <<"Saved">> \o filepath) ELSE stdout
    /\ img' = <<>>
    /\ pc' = "sleep"
    /\ UNCHANGED <<config, dirs, files, rowBufs, sleptUsec, now, dirpath, name, filepath,
                   mkdirRet, mkdirTarget, existedBefore, treeUnchanged, captures, fp,
                   opens, png_ptr, info_ptr, y, out, steps, failed, ret, stderr>>

(* main, line 184: usleep(interval_ms * 1000); the locals of the loop     *)
(* body end with the body                                                 *)
Sleep ==
    /\ pc = "sleep"
    /\ \E u \in UsleepArgs(interval_ms) : sleptUsec' = u
    /\ pc' = "loop"
    /\ ResetLocals
    /\ UNCHANGED <<config, dirs, files, rowBufs>>

Next ==
    \/ StartupFail \/ StartupOk
    \/ BuildPath
    \/ CaptureFail \/ CaptureOk
    \/ FopenFail \/ FopenOk
    \/ CreateWriteFail \/ CreateWriteOk
    \/ CreateInfoFail \/ CreateInfoOk
    \/ WriteInfoFail \/ WriteInfoOk
    \/ MallocRowFail \/ MallocRowOk
    \/ WriteRowFail \/ WriteRowOk
    \/ WriteEndFail \/ Finish
    \/ Report
    \/ Sleep

Spec == Init /\ [][Next]_vars

(* ---------------------------------------------------------------------- *)
(* Readings of an argument that do not go through atoi                    *)
RECURSIVE Pow10(_)
Pow10(k) == IF k = 0 THEN 1 ELSE 10 * Pow10(k - 1)

RECURSIVE PlaceSum(_, _)
PlaceSum(digs, k) ==
    IF k > Len(digs) THEN 0
    ELSE DigitVal(digs[k]) * Pow10(Len(digs) - k) + PlaceSum(digs, k + 1)

\* the index of the first character after leading white space and one sign
BodyStart(s) ==
    LET ws == {k \in 1..Len(s) : \A m \in 1..k : IsSpace(s[m])}
        i  == Cardinality(ws) + 1
    IN  IF i <= Len(s) /\ s[i] \in {"-", "+"} THEN i + 1 ELSE i

Negative(s) == BodyStart(s) >= 2 /\ s[BodyStart(s) - 1] = "-"

\* the longest run of digits that starts at BodyStart
LeadingDigits(s) ==
    LET j   == BodyStart(s)
        run == {k \in j..Len(s) : \A m \in j..k : IsDigit(s[m])}
    IN  SubSeq(s, j, j + Cardinality(run) - 1)

\* the whole argument is a decimal integer
IsInteger(s) ==
    /\ LeadingDigits(s) # <<>>
    /\ BodyStart(s) + Len(LeadingDigits(s)) - 1 = Len(s)

SignedValue(s) ==
    IF Negative(s) THEN 0 - PlaceSum(LeadingDigits(s), 1) ELSE PlaceSum(LeadingDigits(s), 1)

\* C2 as stated - The effective interval is the default 1000 ms whenever the
\* argument is absent, non-numeric (not a decimal integer as a whole), zero or
\* negative, and exactly the parsed value whenever it is a positive integer;
\* it holds in every state after startup, so no loop iteration changes it.
C2_IntervalAsStated ==
    pc # "start" =>
        interval_ms =
            IF argv = <<>> \/ ~IsInteger(argv[1]) \/ SignedValue(argv[1]) <= 0
            THEN 1000
            ELSE SignedValue(argv[1])

\* C2 amended - The effective interval is the default 1000 ms whenever the
\* argument is absent, does not begin (after white space and an optional sign)
\* with a decimal digit, or begins with a number that is zero or negative; it
\* is exactly the value of the leading digit run whenever that value is
\* positive, whatever follows the run; it holds in every state after startup,
\* so no loop iteration changes it.
C2_IntervalFromLeadingNumber ==
    pc # "start" =>
        interval_ms =
            IF argv = <<>> \/ LeadingDigits(argv[1]) = <<>> \/ SignedValue(argv[1]) <= 0
            THEN 1000
            ELSE SignedValue(argv[1])

\* the loop has gone round with the interval taken from the leading digits of
\* an argument that goes on with other characters
C2_Witness ==
    /\ pc = "sleep" /\ sleptUsec # <<>>
    /\ argv = << <<"1", "2", "a", "b">> >>
    /\ interval_ms = 12

(* ---------------------------------------------------------------------- *)
\* C1 - For any configured interval n > 0 the microsecond value handed to
\* usleep (n * 1000 in 32-bit int arithmetic) is never smaller than n * 1000,
\* so the sleep between two iterations is at least n milliseconds.
C1_SleepAtLeastInterval ==
    sleptUsec # <<>> => AtLeast(sleptUsec, Times1000(interval_ms))

(* ---------------------------------------------------------------------- *)
\* C3 - In an iteration whose capture failed, no file is opened, created or
\* written, the capture is not attempted a second time, the failure is
\* reported, nothing is reported as saved, and the loop is at its end-of-cycle
\* sleep, from where the next iteration follows.
C3_CaptureFailureAbandonsIteration ==
    "capture" \in failed =>
        /\ pc = "sleep"
        /\ ENABLED Sleep
        /\ captures = 1
        /\ opens = 0 /\ fp = FALSE /\ steps = <<>> /\ out = NoOutput /\ ret = <<>>
        /\ sleptUsec = <<>> => files = {}
        /\ stderr = <<"Screenshot failed">>
        /\ stdout = <<>>
        /\ failed = {"capture"}

\* a capture failed in the first iteration, after the directory was made
C3_Witness ==
    /\ "capture" \in failed
    /\ sleptUsec = <<>>
    /\ mkdirRet = <<0>>
    /\ files = {}

(* ---------------------------------------------------------------------- *)
\* C4 - The process exits, with status 1, exactly when the display cannot be
\* opened at startup, before any directory is created, any capture attempted
\* or any file made; once the loop is entered (the display is open) there is
\* no terminated state, whatever failed in this or an earlier iteration.
C4_ExitOnlyAtStartup ==
    /\ (exitStatus # <<>>) <=> (pc = "exited")
    /\ pc = "exited" =>
          /\ exitStatus = <<1>>
          /\ dpy = FALSE
          /\ dirs = {getenv_HOME(homeEnv)}
          /\ files = {}
          /\ captures = 0 /\ opens = 0 /\ sleptUsec = <<>>
    /\ pc \notin {"start", "exited"} => dpy = TRUE
    /\ dpy = TRUE => pc \notin {"start", "exited"} /\ exitStatus = <<>>

\* the loop is still running after a directory creation failure and a capture
\* failure in this iteration and an encode failure in an earlier one
C4_Witness ==
    /\ pc = "sleep"
    /\ mkdirRet = <<0 - 1>> /\ existedBefore = FALSE
    /\ "capture" \in failed
    /\ rowBufs > 0
    /\ sleptUsec # <<>>

(* ---------------------------------------------------------------------- *)
\* C5 - For every base directory string and every local time the path handed
\* to the encoder is <base>/Screenshots/<YYYY>/<MM>/<DD>/<HH>/<name>.png with
\* the whole base string, a four-digit year, two-digit month, day and hour,
\* and a name of exactly 8 characters of [0-9a-f]; and the directory made in
\* that iteration is exactly the directory part of that path.
C5_PathHasForm ==
    filepath # <<>> =>
        LET b  == Len(home)
            f  == filepath
            tm == now[1]
            Field(from, w, v) ==
                /\ \A k \in from..(from + w - 1) : IsDigit(f[k])
                /\ PlaceSum(SubSeq(f, from, from + w - 1), 1) = v
        IN  /\ Len(f) = b + 12 + 5 + 3 + 3 + 3 + 1 + 8 + 4
            /\ SubSeq(f, 1, b) = home
            /\ SubSeq(f, b + 1, b + 12) = SlashScreenshots
            /\ f[b + 13] = "/" /\ Field(b + 14, 4, tm.tm_year + 1900)
            /\ f[b + 18] = "/" /\ Field(b + 19, 2, tm.tm_mon + 1)
            /\ f[b + 21] = "/" /\ Field(b + 22, 2, tm.tm_mday)
            /\ f[b + 24] = "/" /\ Field(b + 25, 2, tm.tm_hour)
            /\ f[b + 27] = "/"
            /\ \A k \in (b + 28)..(b + 35) : \E h \in 1..16 : f[k] = hex[h]
            /\ SubSeq(f, b + 36, b + 39) = DotPng
            /\ mkdirTarget = SubSeq(f, 1, b + 26)

(* ---------------------------------------------------------------------- *)
\* C6 - Directory creation is idempotent: mkdir_p on a path whose intermediate
\* and final segments already exist reports success, not failure, and leaves
\* the directory tree exactly as it was.
C6_MkdirIdempotent ==
    (mkdirRet # <<>> /\ existedBefore) => (mkdirRet = <<0>> /\ treeUnchanged)

(* ---------------------------------------------------------------------- *)
(* Bits of a word, read one at a time                                     *)
Bit(v, k) == (v \div (2 ^ k)) % 2

RECURSIVE MaskedBits(_, _, _, _)
\* the 8-bit value made of bits from..from+7 of (v AND m), bit by bit
MaskedBits(v, m, from, k) ==
    IF k > 7 THEN 0
    ELSE Bit(v, from + k) * Bit(m, from + k) * (2 ^ k) + MaskedBits(v, m, from, k + 1)

\* the bytes of pixel x in a written row
RowPixel(r, x) == <<r.bytes[3 * x + 1], r.bytes[3 * x + 2], r.bytes[3 * x + 3]>>

IsRGB24(image) ==
    image.red_mask = 16711680 /\ image.green_mask = 65280 /\ image.blue_mask = 255

\* C7 as stated - For every pixel word and every triple of channel masks the
\* bytes written at the pixel's column are, in R,G,B order, (pixel AND mask)
\* shifted right by that mask's own bit offset, truncated to 8 bits.
C7_ShiftByMaskOffset ==
    img # <<>> =>
        \A i \in 1..Len(out.rows) : \A x \in 0..(img[1].width - 1) :
            LET p == XGetPixel(img[1], x, out.rows[i].y)
                m == img[1]
            IN  RowPixel(out.rows[i], x) =
                  << MaskedBits(p, m.red_mask, MaskOffset(m.red_mask), 0),
                     MaskedBits(p, m.green_mask, MaskOffset(m.green_mask), 0),
                     MaskedBits(p, m.blue_mask, MaskOffset(m.blue_mask), 0) >>

\* C7 amended - For every pixel word and every triple of channel masks the
\* bytes written at the pixel's column are, in R,G,B order, (pixel AND red
\* mask) shifted right by 16, (pixel AND green mask) shifted right by 8 and
\* (pixel AND blue mask) unshifted, each truncated to 8 bits: the shifts are
\* the fixed 16, 8 and 0, not the masks' own offsets.  For masks
\* red=0xFF0000, green=0xFF00, blue=0xFF this gives bits 16-23, 8-15 and 0-7
\* of the word (0x112233 gives 0x11, 0x22, 0x33), and bits of the word above
\* bit 23 never affect any output byte.
C7_ShiftByFixedOffset ==
    img # <<>> =>
        \A i \in 1..Len(out.rows) : \A x \in 0..(img[1].width - 1) :
            LET p == XGetPixel(img[1], x, out.rows[i].y)
                m == img[1]
                b == RowPixel(out.rows[i], x)
            IN  /\ Len(out.rows[i].bytes) = 3 * m.width
                /\ b = << MaskedBits(p, m.red_mask, 16, 0),
                          MaskedBits(p, m.green_mask, 8, 0),
                          MaskedBits(p, m.blue_mask, 0, 0) >>
                /\ b = << MaskedBits(p % (2 ^ 24), m.red_mask, 16, 0),
                          MaskedBits(p % (2 ^ 24), m.green_mask, 8, 0),
                          MaskedBits(p % (2 ^ 24), m.blue_mask, 0, 0) >>
                /\ IsRGB24(m) =>
                      b = <<(p \div (2 ^ 16)) % 256, (p \div (2 ^ 8)) % 256, p % 256>>
                /\ (IsRGB24(m) /\ p = 1122867) => b = <<17, 34, 51>>

\* a row holding a pixel with bits above bit 23 was written under BGR masks
C7_Witness ==
    /\ img # <<>>
    /\ Len(out.rows) >= 1
    /\ img[1].red_mask = 255
    /\ \E x \in 0..(img[1].width - 1) : XGetPixel(img[1], x, out.rows[1].y) >= 2 ^ 24

(* ---------------------------------------------------------------------- *)
\* C8 - A success line naming the path the encoder wrote to is printed exactly
\* once in an iteration whose capture and encode both succeeded, and never in
\* an iteration in which the capture or any encode step failed.
C8_SavedLineIffAllSucceeded ==
    pc = "sleep" =>
        stdout = IF failed = {} THEN << <<"Saved">> \o filepath >> ELSE <<>>

(* ---------------------------------------------------------------------- *)
\* C9 - Every per-iteration resource is released within its iteration on every
\* exit path: at the end-of-cycle sleep the frame is destroyed, the file is
\* closed, the codec state is destroyed and the row buffer is freed, whatever
\* step failed; hence at most one row buffer exists at any time.
C9_ResourcesReleased ==
    /\ rowBufs <= 1
    /\ pc = "sleep" =>
          /\ img = <<>>
          /\ fp = FALSE
          /\ png_ptr = FALSE /\ info_ptr = FALSE
          /\ rowBufs = 0

(* ---------------------------------------------------------------------- *)
\* the steps of a complete encode of an image of h rows
RECURSIVE RowSteps(_)
RowSteps(h) == IF h <= 0 THEN <<>> ELSE <<"row">> \o RowSteps(h - 1)

FullSteps(h) ==
    <<"open", "create_write", "create_info", "header">> \o RowSteps(h) \o <<"end", "close">>

IsPrefix(a, b) == Len(a) <= Len(b) /\ SubSeq(b, 1, Len(a)) = a

\* C10 - In every encode the steps happen in the order open, initialise codec,
\* write header, write rows, finalize, close: the header (width, height, 8
\* bits, RGB, no interlacing) is written before any row, rows are written top
\* to bottom with row y written exactly once, finalize happens only after
\* exactly height rows, a failure at any step returns failure without any
\* later write step, and the encoder reports success only if every step
\* (close among them) succeeded.
C10_EncodeOrder ==
    img # <<>> =>
        LET h    == img[1].height
            done == IF steps # <<>> /\ steps[Len(steps)] = "close"
                    THEN SubSeq(steps, 1, Len(steps) - 1) ELSE steps
        IN  /\ IsPrefix(done, FullSteps(h))
            /\ \A i \in 1..Len(out.rows) : out.rows[i].y = i - 1
            /\ Len(out.rows) <= h
            /\ out.rows # <<>> => out.header = <<Header(img[1])>>
            /\ out.ended => Len(out.rows) = h
            /\ ret = <<0 - 1>> => (~out.ended /\ failed # {})
            /\ ret # <<>> => fp = FALSE
            /\ ret = <<0>> => (steps = FullSteps(h) /\ out.ended /\ failed = {})

====
